---- MODULE Spec2Model ----
(***************************************************************************)
(* Model of the statistical core of the Stock-Forecast-App:                *)
(*   Modules/stationarity.py  adf_test                                     *)
(*   Modules/forecast.py      get_arima_params, forecast_stock             *)
(* and of the way app.py calls them.  The program is single threaded: one  *)
(* call runs at a time, statement group by statement group (pc).  The      *)
(* numerical library (statsmodels, matplotlib) is an environment whose     *)
(* answers are chosen from small sets; the code around it is modelled      *)
(* statement by statement.                                                 *)
(*                                                                         *)
(* Floating-point numbers are tagged records so that a NaN and the "N/A"   *)
(* marker are values of their own.  p-values are in thousandths (0.05 is   *)
(* 50), correlations in tenths (0.2 is 2).                                 *)
(***************************************************************************)
EXTENDS Integers, Sequences, FiniteSets, TLC

VARIABLES
    pc,           \* position of the running call; "done": ended, "idle": no call
    op,           \* the function being (or last) called
    series,       \* the series argument: sequence of cells, a cell may be missing
    lib,          \* what adfuller computes on the cleaned argument series
    stock_name,   \* adf_test's second argument
    order,        \* forecast_stock's (p, d, q) arguments
    series_clean, \* local series_clean
    temp_series,  \* local temp_series of get_arima_params
    diff_count,   \* local diff_count of get_arima_params
    adf_res,      \* the value of the latest adfuller call
    adf_calls,    \* number of adfuller calls made by the running call
    fig,          \* the figure of the running call: "none", "open", "closed"
    openFigs,     \* number of figures in pyplot's process-wide registry
    buf,          \* local buf of get_arima_params
    pacf_values,  \* local pacf_values
    acf_values,   \* local acf_values
    p,            \* local p
    q,            \* local q
    fit_calls,    \* number of ARIMA(...).fit() attempts of the running call
    forecast,     \* local forecast of forecast_stock
    exc,          \* the exception caught by the running call, "" if none
    ret,          \* how the last call ended: returned value or raised exception
    memo          \* an earlier adf_test call kept for comparison: input and result

vars == <<pc, op, series, lib, stock_name, order, series_clean, temp_series,
          diff_count, adf_res, adf_calls, fig, openFigs, buf, pacf_values,
          acf_values, p, q, fit_calls, forecast, exc, ret, memo>>

----------------------------------------------------------------------------
(* Bounds of the model *)

MaxShort == 2     \* short series have 0..MaxShort cells
LongLen  == 25    \* length of the long series
MaxFigs  == 2     \* figures that may pile up in pyplot's registry

(* Constants of the program *)

Alpha        == 50   \* 0.05, in thousandths
MaxDiff      == 2    \* differencing attempts
NLags        == 20   \* lags of the ACF and PACF
Threshold    == 2    \* 0.2, in tenths
OrderCap     == 10   \* cap of p and q
DefaultOrder == 1    \* p and q when no lag exceeds the threshold
Steps        == 7    \* forecast horizon
P_MAX        == 10   \* number_input max_value of p and q
D_MAX        == 2    \* number_input max_value of d

----------------------------------------------------------------------------
(* Floating-point values *)

Num(x) == [t |-> "num", v |-> x]
NaN    == [t |-> "nan", v |-> 0]
NA     == [t |-> "N/A", v |-> 0]     \* the string "N/A"
CritTable == [t |-> "dict", v |-> 0] \* adfuller's table of critical values

\* IEEE comparisons: any comparison with a NaN is false
FloatGt(a, b) == a.t = "num" /\ b.t = "num" /\ a.v > b.v
FloatLt(a, b) == a.t = "num" /\ b.t = "num" /\ a.v < b.v

Abs(x) == IF x < 0 THEN 0 - x ELSE x
Min(a, b) == IF a < b THEN a ELSE b

----------------------------------------------------------------------------
(* Series: pandas operations *)

Cell(x)  == [na |-> FALSE, v |-> x]
Missing  == [na |-> TRUE, v |-> 0]

\* Series.dropna()
DropNa(s) == SelectSeq(s, LAMBDA c : ~c.na)

\* Series.diff(): first cell missing, then successive differences
PdDiff(s) ==
    [i \in 1..Len(s) |->
        IF i = 1 \/ s[i].na \/ s[i-1].na THEN Missing
        ELSE Cell(s[i].v - s[i-1].v)]

RECURSIVE SumV(_)
SumV(s) == IF s = <<>> THEN 0 ELSE Head(s).v + SumV(Tail(s))

RECURSIVE SumSq(_)
SumSq(s) == IF s = <<>> THEN 0 ELSE Head(s).v * Head(s).v + SumSq(Tail(s))

\* Series.std() == 0 on a series without missing cells: the sample variance
\* sum((x - mean)^2) / (n - 1) is zero; with n < 2 the std is NaN, not 0
StdIsZero(s) ==
    /\ Len(s) >= 2
    /\ Len(s) * SumSq(s) - SumV(s) * SumV(s) = 0

----------------------------------------------------------------------------
(* Inputs *)

Shapes == {"const", "alt", "ramp"}
Holes  == {"none", "odd"}
Lens   == (0..MaxShort) \cup {LongLen}

\* const: 50, 50, 50, ...   alt: 101, 100, 101, 100, ...   ramp: 1, 2, 3, ...
\* holes "odd": the cells at odd positions are missing
MkSeries(sh, n, h) ==
    [i \in 1..n |->
        IF h = "odd" /\ i % 2 = 1 THEN Missing
        ELSE IF sh = "const" THEN Cell(50)
        ELSE IF sh = "alt" THEN Cell(100 + (i % 2))
        ELSE Cell(i)]

SeriesInputs == {MkSeries(sh, n, h) : sh \in Shapes, n \in Lens, h \in Holes}

Names == {"TCS", "INFY"}

\* adfuller: (statistic, p-value, ..., critical values) or an exception
AdfOk ==
    { [kind |-> "ok", stat |-> Num(0 - 35), pvalue |-> Num(49)],
      [kind |-> "ok", stat |-> Num(0 - 29), pvalue |-> Num(50)],
      [kind |-> "ok", stat |-> Num(0 - 28), pvalue |-> Num(51)],
      [kind |-> "ok", stat |-> NaN,         pvalue |-> NaN] }
AdfRaise == [kind |-> "raise", stat |-> NaN, pvalue |-> NaN]
AdfOutcomes == AdfOk \cup {AdfRaise}
NoAdf == [kind |-> "none", stat |-> NaN, pvalue |-> NaN]

\* how a call ended
NoRet == [kind |-> "none", exc |-> "", val |-> <<>>]
Return(v) == [kind |-> "return", exc |-> "", val |-> v]
Raise(e)  == [kind |-> "raise", exc |-> e, val |-> <<>>]

NoOrder == [p |-> 0, d |-> 0, q |-> 0]
NoMemo  == [set |-> FALSE, series |-> <<>>, name |-> "", lib |-> NoAdf, ret |-> NoRet]

Init ==
    /\ pc = "idle"
    /\ op = "none"
    /\ series = <<>>
    /\ lib = NoAdf
    /\ stock_name = ""
    /\ order = NoOrder
    /\ series_clean = <<>>
    /\ temp_series = <<>>
    /\ diff_count = 0
    /\ adf_res = NoAdf
    /\ adf_calls = 0
    /\ fig = "none"
    /\ openFigs = 0
    /\ buf = "None"
    /\ pacf_values = <<>>
    /\ acf_values = <<>>
    /\ p = 0
    /\ q = 0
    /\ fit_calls = 0
    /\ forecast = <<>>
    /\ exc = ""
    /\ ret = NoRet
    /\ memo = NoMemo

\* a call starts from the idle state, where no frame exists
Enter(f, s, l, n, o, at) ==
    /\ pc = "idle"
    /\ pc' = at
    /\ op' = f
    /\ series' = s
    /\ lib' = l
    /\ stock_name' = n
    /\ order' = o
    /\ series_clean' = DropNa(s)
    /\ UNCHANGED <<temp_series, diff_count, adf_res, adf_calls, fig, openFigs, buf,
                   pacf_values, acf_values, p, q, fit_calls, forecast, exc, ret, memo>>

\* the series on which the caller compares two results of adf_test; the first
\* of the two is one obtained while pyplot's registry is empty
ProbeSeries == {MkSeries("alt", MaxShort, "none")}

\* the call has ended: the caller takes the result (app.py keeps the results of
\* adf_test in adf_results) and the frame with its locals is gone; pyplot's
\* registry stays
Finish ==
    /\ pc = "done"
    /\ pc' = "idle"
    /\ op' = "none"
    /\ series' = <<>>
    /\ lib' = NoAdf
    /\ stock_name' = ""
    /\ order' = NoOrder
    /\ series_clean' = <<>>
    /\ temp_series' = <<>>
    /\ diff_count' = 0
    /\ adf_res' = NoAdf
    /\ adf_calls' = 0
    /\ fig' = "none"
    /\ buf' = "None"
    /\ pacf_values' = <<>>
    /\ acf_values' = <<>>
    /\ p' = 0
    /\ q' = 0
    /\ fit_calls' = 0
    /\ forecast' = <<>>
    /\ exc' = ""
    /\ ret' = NoRet
    /\ \/ memo' = memo
       \/ /\ op = "adf_test"
          /\ series \in ProbeSeries
          /\ ~memo.set
          /\ openFigs = 0
          /\ memo' = [set |-> TRUE, series |-> series, name |-> stock_name,
                      lib |-> lib, ret |-> ret]
    /\ UNCHANGED openFigs

\* the locals a statement of adf_test or forecast_stock never touches
GapLocals == <<temp_series, diff_count, fig, openFigs, buf, pacf_values, acf_values, p, q>>
Args == <<op, series, lib, stock_name, order, series_clean>>

----------------------------------------------------------------------------
(* stationarity.py: adf_test *)

\* variant: the guard also looks at pyplot's registry
AdfDegenerate_Figs(sc) == Len(sc) < 2 \/ StdIsZero(sc) \/ openFigs > 0

\* len(series_clean) < 2 or series_clean.std() == 0
AdfDegenerate(sc) == Len(sc) < 2 \/ StdIsZero(sc)

\* the "Stationary" entry of the result: a label, or f"Error: {str(e)}"
Verdict(label) == [v |-> label, msg |-> ""]
ErrorVerdict(e) == [v |-> "Error", msg |-> e]
CannotTest == Verdict("Cannot Test (Constant or Insufficient Data)")

\* variant: <= in place of <
AdfVerdict_Le(pv) ==
    IF pv.t = "num" /\ pv.v <= Alpha THEN Verdict("Stationary") ELSE Verdict("Non-Stationary")

\* "Stationary" if result[1] < 0.05 else "Non-Stationary"
AdfVerdict(pv) ==
    IF FloatLt(pv, Num(Alpha)) THEN Verdict("Stationary") ELSE Verdict("Non-Stationary")

AdfDict(name, stat, pv, crit, verdict) ==
    [Stock |-> name, ADFStatistic |-> stat, pvalue |-> pv,
     CriticalValues |-> crit, Stationary |-> verdict]


\* series_clean = series.dropna()
AdfCall ==
    \E s \in SeriesInputs, l \in AdfOutcomes, n \in Names :
        Enter("adf_test", s, l, n, NoOrder, "adf_guard")

\* if len(series_clean) < 2 or series_clean.std() == 0: return {... "N/A" ...}
AdfGuard ==
    /\ pc = "adf_guard"
    /\ IF AdfDegenerate(series_clean)
       THEN /\ ret' = Return(AdfDict(stock_name, NA, NA, NA, CannotTest))
            /\ pc' = "done"
       ELSE /\ ret' = ret
            /\ pc' = "adf_try"
    /\ UNCHANGED <<adf_res, adf_calls, fit_calls, forecast, exc, memo>>
    /\ UNCHANGED GapLocals
    /\ UNCHANGED Args

\* try: result = adfuller(series_clean)
AdfRun ==
    /\ pc = "adf_try"
    /\ adf_res' = lib
    /\ adf_calls' = adf_calls + 1
    /\ pc' = IF lib.kind = "raise" THEN "adf_except" ELSE "adf_return"
    /\ exc' = IF lib.kind = "raise" THEN "adfuller failed" ELSE exc
    /\ UNCHANGED <<ret, fit_calls, forecast, memo>>
    /\ UNCHANGED GapLocals
    /\ UNCHANGED Args

\* return {"Stock": ..., "ADF Statistic": result[0], "p-value": result[1], ...}
AdfReturn ==
    /\ pc = "adf_return"
    /\ ret' = Return(AdfDict(stock_name, adf_res.stat, adf_res.pvalue, CritTable,
                             AdfVerdict(adf_res.pvalue)))
    /\ pc' = "done"
    /\ UNCHANGED <<adf_res, adf_calls, fit_calls, forecast, exc, memo>>
    /\ UNCHANGED GapLocals
    /\ UNCHANGED Args

\* except Exception as e: return {... "N/A" ..., "Stationary": f"Error: {e}"}
AdfExcept ==
    /\ pc = "adf_except"
    /\ ret' = Return(AdfDict(stock_name, NA, NA, NA, ErrorVerdict(exc)))
    /\ pc' = "done"
    /\ UNCHANGED <<adf_res, adf_calls, fit_calls, forecast, exc, memo>>
    /\ UNCHANGED GapLocals
    /\ UNCHANGED Args

----------------------------------------------------------------------------
(* forecast.py: get_arima_params *)

\* a correlogram without lag 0: NLags floats.  first: 0-based position of the
\* first cell beyond the threshold (NLags: none); the cells before it sit at
\* the threshold or are NaN
MkCurve(first, sign) ==
    [i \in 1..NLags |->
        IF i - 1 < first THEN (IF i % 2 = 1 THEN Num(Threshold) ELSE NaN)
        ELSE IF i - 1 = first THEN Num(sign * (Threshold + 1))
        ELSE Num(0)]

FirstPos == {0, 1, OrderCap, OrderCap + 1, NLags}
Curves == {MkCurve(f, 1) : f \in FirstPos} \cup {MkCurve(0, 0 - 1)}

\* variant: the guard without the test of the standard deviation
GapDegenerate_NoStd(sc) == Len(sc) < 2

\* len(series_clean) < 2 or series_clean.std() == 0
GapDegenerate(sc) == Len(sc) < 2 \/ StdIsZero(sc)

\* variant: <= in place of < on diff_count
LoopContinues_Le(pv, dc) == FloatGt(pv, Num(Alpha)) /\ dc <= MaxDiff

\* adfuller(temp_series)[1] > 0.05 and diff_count < 2
LoopContinues(pv, dc) == FloatGt(pv, Num(Alpha)) /\ dc < MaxDiff

\* abs(values[i]) > 0.2
Exceeds(c) == c.t = "num" /\ Abs(c.v) > Threshold

\* next((i for i in range(len(values)) if abs(values[i]) > 0.2), 1)
FirstIdx(values) ==
    IF \E i \in 1..Len(values) : Exceeds(values[i])
    THEN (CHOOSE i \in 1..Len(values) :
             /\ Exceeds(values[i])
             /\ \A j \in 1..(i-1) : ~Exceeds(values[j])) - 1
    ELSE DefaultOrder

\* variant: no clamping
CapOrder_None(x) == x

\* min(p, 10)
CapOrder(x) == Min(x, OrderCap)

\* what a statement of get_arima_params never touches
NotGap == <<fit_calls, forecast, exc, memo>>

\* series_clean = series.dropna()
GapCall ==
    /\ openFigs < MaxFigs
    /\ \E s \in SeriesInputs, l \in AdfOutcomes :
          Enter("get_arima_params", s, l, "", NoOrder, "gap_guard")

\* if len(series_clean) < 2 or series_clean.std() == 0: return 1, 0, 1, None
\* diff_count = 0; temp_series = series_clean.copy()
GapGuard ==
    /\ pc = "gap_guard"
    /\ IF GapDegenerate(series_clean)
       THEN /\ ret' = Return([p |-> 1, d |-> 0, q |-> 1, buf |-> "None"])
            /\ pc' = "done"
            /\ UNCHANGED <<temp_series, diff_count>>
       ELSE /\ diff_count' = 0
            /\ temp_series' = series_clean
            /\ pc' = "gap_while"
            /\ ret' = ret
    /\ UNCHANGED <<adf_res, adf_calls, fig, openFigs, buf, pacf_values, acf_values, p, q>>
    /\ UNCHANGED NotGap
    /\ UNCHANGED Args

\* while adfuller(temp_series)[1] > 0.05 and diff_count < 2:
\* adfuller runs before diff_count is looked at; an exception leaves the function
GapWhile ==
    /\ pc = "gap_while"
    /\ \E r \in (IF diff_count = 0 THEN {lib} ELSE AdfOutcomes) :
          /\ adf_res' = r
          /\ adf_calls' = adf_calls + 1
          /\ IF r.kind = "raise"
             THEN ret' = Raise("adfuller") /\ pc' = "done"
             ELSE /\ ret' = ret
                  /\ pc' = IF LoopContinues(r.pvalue, diff_count)
                           THEN "gap_diff" ELSE "gap_plot"
    /\ UNCHANGED <<temp_series, diff_count, fig, openFigs, buf, pacf_values, acf_values, p, q>>
    /\ UNCHANGED NotGap
    /\ UNCHANGED Args

\* temp_series = temp_series.diff().dropna(); diff_count += 1
GapDiff ==
    /\ pc = "gap_diff"
    /\ temp_series' = DropNa(PdDiff(temp_series))
    /\ diff_count' = diff_count + 1
    /\ pc' = "gap_while"
    /\ UNCHANGED <<adf_res, adf_calls, fig, openFigs, buf, pacf_values, acf_values, p, q, ret>>
    /\ UNCHANGED NotGap
    /\ UNCHANGED Args

\* fig, (ax1, ax2) = plt.subplots(2, 1, figsize=(10, 8))
GapSubplots ==
    /\ pc = "gap_plot"
    /\ fig' = "open"
    /\ openFigs' = openFigs + 1
    /\ adf_res' = NoAdf
    /\ pc' = "gap_draw"
    /\ UNCHANGED <<temp_series, diff_count, adf_calls, buf, pacf_values, acf_values, p, q, ret>>
    /\ UNCHANGED NotGap
    /\ UNCHANGED Args

\* plot_acf(...); plot_pacf(...); set_title; tight_layout; buf = BytesIO();
\* fig.savefig(buf, format="png"): any of them may raise, nothing catches it
GapDraw ==
    /\ pc = "gap_draw"
    /\ \/ /\ buf' = "png"
          /\ pc' = "gap_close"
          /\ ret' = ret
       \/ /\ ret' = Raise("plot")
          /\ pc' = "done"
          /\ buf' = buf
    /\ UNCHANGED <<temp_series, diff_count, adf_res, adf_calls, fig, openFigs, pacf_values, acf_values, p, q>>
    /\ UNCHANGED NotGap
    /\ UNCHANGED Args

\* plt.close(fig)
GapClose ==
    /\ pc = "gap_close"
    /\ fig' = "closed"
    /\ openFigs' = openFigs - 1
    /\ pc' = "gap_pacf"
    /\ UNCHANGED <<temp_series, diff_count, adf_res, adf_calls, buf, pacf_values, acf_values, p, q, ret>>
    /\ UNCHANGED NotGap
    /\ UNCHANGED Args

\* pacf_values = pacf(temp_series, nlags=20)[1:]
GapPacf ==
    /\ pc = "gap_pacf"
    /\ \/ \E c \in Curves :
             /\ pacf_values' = c
             /\ pc' = "gap_acf"
             /\ ret' = ret
       \/ /\ ret' = Raise("pacf")
          /\ pc' = "done"
          /\ pacf_values' = pacf_values
    /\ UNCHANGED <<temp_series, diff_count, adf_res, adf_calls, fig, openFigs, buf, acf_values, p, q>>
    /\ UNCHANGED NotGap
    /\ UNCHANGED Args

\* acf_values = acf(temp_series, nlags=20)[1:]
GapAcf ==
    /\ pc = "gap_acf"
    /\ \/ \E c \in Curves :
             /\ acf_values' = c
             /\ pc' = "gap_estimate"
             /\ ret' = ret
       \/ /\ ret' = Raise("acf")
          /\ pc' = "done"
          /\ acf_values' = acf_values
    /\ UNCHANGED <<temp_series, diff_count, adf_res, adf_calls, fig, openFigs, buf, pacf_values, p, q>>
    /\ UNCHANGED NotGap
    /\ UNCHANGED Args

\* p = next(...pacf_values...); q = next(...acf_values...)
GapEstimate ==
    /\ pc = "gap_estimate"
    /\ p' = FirstIdx(pacf_values)
    /\ q' = FirstIdx(acf_values)
    /\ pc' = "gap_cap"
    /\ UNCHANGED <<temp_series, diff_count, adf_res, adf_calls, fig, openFigs, buf, pacf_values, acf_values, ret>>
    /\ UNCHANGED NotGap
    /\ UNCHANGED Args

\* p = min(p, 10); q = min(q, 10)
GapCap ==
    /\ pc = "gap_cap"
    /\ p' = CapOrder(p)
    /\ q' = CapOrder(q)
    /\ pc' = "gap_return"
    /\ UNCHANGED <<temp_series, diff_count, adf_res, adf_calls, fig, openFigs, buf, pacf_values, acf_values, ret>>
    /\ UNCHANGED NotGap
    /\ UNCHANGED Args

\* return p, diff_count, q, buf
GapReturn ==
    /\ pc = "gap_return"
    /\ ret' = Return([p |-> p, d |-> diff_count, q |-> q, buf |-> buf])
    /\ pc' = "done"
    /\ UNCHANGED <<temp_series, diff_count, adf_res, adf_calls, fig, openFigs, buf, pacf_values, acf_values, p, q>>
    /\ UNCHANGED NotGap
    /\ UNCHANGED Args

----------------------------------------------------------------------------
(* forecast.py: forecast_stock, called by app.py with the number inputs *)

\* len(series_clean) < 2 or series_clean.std() == 0
FsDegenerate(sc) == Len(sc) < 2 \/ StdIsZero(sc)

\* the values the p, d and q number inputs can hold
UserOrders == {[p |-> a, d |-> b, q |-> c] :
                  a \in {0, 1, P_MAX}, b \in 0..D_MAX, c \in {0, 1, P_MAX}}

\* model.forecast(steps=n): n point predictions
LibForecast(n) == {[i \in 1..n |-> Num(v)] : v \in {100, 101}}

CannotForecast == "Cannot forecast: Constant or insufficient data"

\* what a statement of forecast_stock never touches
NotFs == <<adf_res, adf_calls, memo>>

\* series_clean = series.dropna()
FsCall ==
    \E s \in SeriesInputs, o \in UserOrders :
        Enter("forecast_stock", s, NoAdf, "", o, "fs_guard")

\* if len(series_clean) < 2 or series_clean.std() == 0: raise Exception(...)
FsGuard ==
    /\ pc = "fs_guard"
    /\ IF FsDegenerate(series_clean)
       THEN ret' = Raise(CannotForecast) /\ pc' = "done"
       ELSE ret' = ret /\ pc' = "fs_fit"
    /\ UNCHANGED <<fit_calls, forecast, exc>>
    /\ UNCHANGED NotFs
    /\ UNCHANGED GapLocals
    /\ UNCHANGED Args

\* try: model = ARIMA(series_clean, order=(p, d, q)).fit()
FsFit ==
    /\ pc = "fs_fit"
    /\ fit_calls' = fit_calls + 1
    /\ \/ pc' = "fs_forecast" /\ exc' = exc
       \/ pc' = "fs_except" /\ exc' = "fit failed"
    /\ UNCHANGED <<forecast, ret>>
    /\ UNCHANGED NotFs
    /\ UNCHANGED GapLocals
    /\ UNCHANGED Args

\* forecast = model.forecast(steps=7)
FsForecast ==
    /\ pc = "fs_forecast"
    /\ \/ \E f \in LibForecast(Steps) :
             /\ forecast' = f
             /\ pc' = "fs_return"
             /\ exc' = exc
       \/ /\ pc' = "fs_except"
          /\ forecast' = forecast
          /\ exc' = "forecast failed"
    /\ UNCHANGED <<fit_calls, ret>>
    /\ UNCHANGED NotFs
    /\ UNCHANGED GapLocals
    /\ UNCHANGED Args

\* logger.info(...); return forecast
FsReturn ==
    /\ pc = "fs_return"
    /\ ret' = Return(forecast)
    /\ pc' = "done"
    /\ UNCHANGED <<fit_calls, forecast, exc>>
    /\ UNCHANGED NotFs
    /\ UNCHANGED GapLocals
    /\ UNCHANGED Args

\* variant: the handler logs and returns what it has instead of re-raising
FsExcept_Swallow ==
    /\ pc = "fs_except"
    /\ ret' = Return(forecast)
    /\ pc' = "done"
    /\ UNCHANGED <<fit_calls, forecast, exc>>
    /\ UNCHANGED NotFs
    /\ UNCHANGED GapLocals
    /\ UNCHANGED Args

\* except Exception as e: logger.error(...); raise
FsExcept ==
    /\ pc = "fs_except"
    /\ ret' = Raise(exc)
    /\ pc' = "done"
    /\ UNCHANGED <<fit_calls, forecast, exc>>
    /\ UNCHANGED NotFs
    /\ UNCHANGED GapLocals
    /\ UNCHANGED Args

----------------------------------------------------------------------------
Next ==
    \/ AdfCall
    \/ AdfGuard
    \/ AdfRun
    \/ AdfReturn
    \/ AdfExcept
    \/ GapCall
    \/ GapGuard
    \/ GapWhile
    \/ GapDiff
    \/ GapSubplots
    \/ GapDraw
    \/ GapClose
    \/ GapPacf
    \/ GapAcf
    \/ GapEstimate
    \/ GapCap
    \/ GapReturn
    \/ FsCall
    \/ FsGuard
    \/ FsFit
    \/ FsForecast
    \/ FsReturn
    \/ FsExcept
    \/ Finish

Spec == Init /\ [][Next]_vars

----------------------------------------------------------------------------
(* The properties *)

\* the cleaned form of a series has fewer than 2 cells or no variation
Present(s) == {i \in 1..Len(s) : ~s[i].na}
CleanedDegenerate(s) ==
    \/ Cardinality(Present(s)) < 2
    \/ \A i, j \in Present(s) : s[i].v = s[j].v

\* C1: on a series whose cleaned form has length < 2 or zero standard
\* deviation, adf_test returns Cannot-Test with statistic, p-value and
\* critical values "N/A"; get_arima_params returns (1, 0, 1) without a plot;
\* forecast_stock raises "Cannot forecast ..." before any fit; no such call
\* gets past its guard
Thm_C1 ==
    CleanedDegenerate(series) =>
        /\ pc \in {"idle", "done", "adf_guard", "gap_guard", "fs_guard"}
        /\ (pc = "done" /\ op = "adf_test") =>
              /\ ret.kind = "return"
              /\ ret.val.Stock = stock_name
              /\ ret.val.Stationary = CannotTest
              /\ ret.val.ADFStatistic = NA
              /\ ret.val.pvalue = NA
              /\ ret.val.CriticalValues = NA
              /\ adf_calls = 0
        /\ (pc = "done" /\ op = "get_arima_params") =>
              /\ ret.kind = "return"
              /\ ret.val = [p |-> 1, d |-> 0, q |-> 1, buf |-> "None"]
              /\ adf_calls = 0
              /\ fig = "none"
        /\ (pc = "done" /\ op = "forecast_stock") =>
              /\ ret.kind = "raise"
              /\ ret.exc = CannotForecast
              /\ fit_calls = 0

\* a series made constant only by dropping its missing cells was refused a forecast
Wit_C1 ==
    /\ pc = "done"
    /\ op = "forecast_stock"
    /\ CleanedDegenerate(series)
    /\ Cardinality(Present(series)) >= 2
    /\ Len(series) > Cardinality(Present(series))
    /\ ret.kind = "raise"

\* C2: in get_arima_params the loop test runs at most three times, at most 2
\* differencing operations are applied, diff_count is the number of
\* differencing operations applied (each shortens temp_series by one cell),
\* and the d returned is that number, one of 0, 1, 2
Thm_C2 ==
    op = "get_arima_params" =>
        /\ diff_count \in {0, 1, 2}
        /\ adf_calls <= 3
        /\ adf_calls > 0 => Len(temp_series) = Len(series_clean) - diff_count
        /\ (pc = "done" /\ ret.kind = "return") =>
              /\ ret.val.d = diff_count
              /\ ret.val.d \in {0, 1, 2}

\* a call returned d = 2 after three unit-root tests
Wit_C2 ==
    /\ pc = "done"
    /\ op = "get_arima_params"
    /\ ret.kind = "return"
    /\ ret.val.d = 2
    /\ adf_calls = 3
    /\ Len(temp_series) = Len(series_clean) - 2

\* 1-based position of the first cell whose magnitude exceeds 0.2, else 1
OneBasedFirst(values) ==
    IF \E i \in 1..Len(values) : values[i].t = "num" /\ Abs(values[i].v) > 2
    THEN CHOOSE i \in 1..Len(values) :
            /\ values[i].t = "num" /\ Abs(values[i].v) > 2
            /\ \A j \in 1..(i-1) : ~(values[j].t = "num" /\ Abs(values[j].v) > 2)
    ELSE 1

\* C3: before the clamping at 10, p is the 1-based position in the PACF
\* sequence without lag 0 of the first cell whose magnitude exceeds 0.2, or 1
\* when there is none; q is the same for the ACF sequence
Claim_C3 ==
    (pc = "gap_cap" /\ op = "get_arima_params") =>
        /\ p = OneBasedFirst(pacf_values)
        /\ q = OneBasedFirst(acf_values)

\* C4: when the unit-root test throws, the call that ran it does not raise;
\* adf_test returns the Error verdict with all numeric fields "N/A"
Claim_C4 ==
    (pc = "done" /\ adf_res.kind = "raise") =>
        /\ ret.kind = "return"
        /\ op = "adf_test" =>
              /\ ret.val.Stationary.v = "Error"
              /\ ret.val.ADFStatistic = NA
              /\ ret.val.pvalue = NA
              /\ ret.val.CriticalValues = NA

\* C5: a call of forecast_stock on a non-degenerate series attempts the fit
\* exactly once and either returns the 7 predictions of the library, or
\* raises the failure of the fit or of the forecast; after a failure nothing
\* is returned
Thm_C5 ==
    op = "forecast_stock" =>
        /\ fit_calls <= 1
        /\ (pc = "done" /\ ~CleanedDegenerate(series)) =>
              /\ fit_calls = 1
              /\ ret.kind \in {"return", "raise"}
              /\ ret.kind = "return" =>
                    /\ exc = ""
                    /\ Len(ret.val) = 7
                    /\ ret.val = forecast
                    /\ \A i \in 1..7 : ret.val[i].t = "num"
              /\ ret.kind = "raise" =>
                    /\ exc \in {"fit failed", "forecast failed"}
                    /\ ret.exc = exc
              /\ exc # "" => ret.kind = "raise"

\* a forecast failure after a successful fit reached the caller
Wit_C5 ==
    /\ pc = "done"
    /\ op = "forecast_stock"
    /\ ~CleanedDegenerate(series)
    /\ ret.kind = "raise"
    /\ ret.exc = "forecast failed"
    /\ fit_calls = 1

\* C6: the proposal get_arima_params returns has p and q in 0..10 and d in
\* 0..2, the ranges of the number inputs of app.py
Thm_C6 ==
    (pc = "done" /\ op = "get_arima_params" /\ ret.kind = "return") =>
        /\ ret.val.p \in 0..P_MAX
        /\ ret.val.q \in 0..P_MAX
        /\ ret.val.d \in 0..D_MAX

\* a non-degenerate series of length >= 25 whose first large partial
\* autocorrelation is beyond the cap: p is clamped to 10
Wit_C6 ==
    /\ pc = "done"
    /\ op = "get_arima_params"
    /\ ret.kind = "return"
    /\ ~CleanedDegenerate(series)
    /\ Cardinality(Present(series)) >= 25
    /\ FirstIdx(pacf_values) > 10
    /\ ret.val.p = 10

\* C7: on a series whose cleaned form has length >= 2 and non-zero standard
\* deviation adf_test never returns Cannot-Test; when adfuller completes, the
\* result carries its statistic, p-value and critical values, none of them
\* "N/A", and the verdict is Stationary iff the p-value is < 0.05, otherwise
\* Non-Stationary
Thm_C7 ==
    (pc = "done" /\ op = "adf_test" /\ ~CleanedDegenerate(series)) =>
        /\ ret.kind = "return"
        /\ ret.val.Stationary # CannotTest
        /\ lib.kind = "ok" =>
              /\ ret.val.ADFStatistic = lib.stat
              /\ ret.val.pvalue = lib.pvalue
              /\ ret.val.CriticalValues = CritTable
              /\ NA \notin {ret.val.ADFStatistic, ret.val.pvalue, ret.val.CriticalValues}
              /\ ret.val.Stationary.v \in {"Stationary", "Non-Stationary"}
              /\ ret.val.Stationary.v = "Stationary" <=>
                    (lib.pvalue.t = "num" /\ lib.pvalue.v < 50)

\* a p-value of exactly 0.05 gave Non-Stationary
Wit_C7 ==
    /\ pc = "done"
    /\ op = "adf_test"
    /\ ~CleanedDegenerate(series)
    /\ lib.kind = "ok"
    /\ lib.pvalue = Num(50)
    /\ ret.val.Stationary.v = "Non-Stationary"

Claim_C9 ==
    (pc = "gap_plot" /\ diff_count < 2) =>
        /\ adf_res.pvalue.t = "num"
        /\ adf_res.pvalue.v < 50

\* C10: when a call of get_arima_params has ended, by return or by raise, the
\* figure it opened is closed and pyplot's registry holds no figure
Claim_C10 ==
    (pc = "done" /\ op = "get_arima_params") =>
        /\ fig # "open"
        /\ openFigs = 0

====
